---- MODULE Spec2Model ----
(***************************************************************************)
(* Model of package weberr (errors.go): errors annotated with a type, a   *)
(* user message and a captured stack trace, and the accessors that read   *)
(* them back from a chain of wrapped errors.                               *)
(*                                                                         *)
(* An error value is the chain of its nodes, outermost first; the cause   *)
(* of a node is the rest of the chain, and the nil error is the empty     *)
(* chain.  A string is the sequence of its pieces, so that concatenation  *)
(* is \o and the empty string is << >>.                                    *)
(***************************************************************************)
EXTENDS Integers, Sequences, FiniteSets, TLC

VARIABLES err, arg, op, hist, calls, out

vars == <<err, arg, op, hist, calls, out>>

(* Number of calls the caller makes on its error value. *)
MaxCalls == 3

(* ---- ErrorType (errors.go 26-39) ---- *)
NoType == 0
BadRequest == 1
NotFound == 2
Unauthorized == 3
Conflict == 4

ErrorType == {NoType, BadRequest, NotFound, Unauthorized, Conflict}

(* The kinds the caller passes in. *)
KindInputs == {NoType, BadRequest, NotFound}

(* The format strings the caller passes in: the empty one and "m%v". *)
FormatInputs == {<< >>, <<"m", "%v">>}

Nil == << >>

(* ---- fmt.Sprintf: each verb takes the next argument ---- *)
RECURSIVE Sprintf(_, _)
Sprintf(format, args) ==
    IF format = << >>
    THEN IF args = << >> THEN << >> ELSE <<"%!(EXTRA)">>
    ELSE IF Head(format) = "%v"
         THEN IF args = << >>
              THEN <<"%!v(MISSING)">> \o Sprintf(Tail(format), args)
              ELSE <<Head(args)>> \o Sprintf(Tail(format), Tail(args))
         ELSE <<Head(format)>> \o Sprintf(Tail(format), args)

(* ---- nodes of a chain ---- *)
Node(tag, msg, stack, errorType, userMessage) ==
    [tag |-> tag, msg |-> msg, stack |-> stack,
     errorType |-> errorType, userMessage |-> userMessage]

(* customError{error, errorType, userMessage} wrapping cause e *)
customError(e, errorType, userMessage) ==
    <<Node("customError", << >>, << >>, errorType, userMessage)>> \o e

(* An error of another package that wraps nothing: io.EOF carries no      *)
(* trace, an error of errors.New carries the trace of its creation.        *)
plainError(msg) == <<Node("plain", msg, << >>, NoType, << >>)>>

fundamental(msg, st) == <<Node("fundamental", msg, st, NoType, << >>)>>

(* errors.WithStack: nil for nil, else a wrapper carrying a trace *)
WithStack(e, st) ==
    IF e = Nil THEN Nil
    ELSE <<Node("withStack", << >>, st, NoType, << >>)>> \o e

(* errors.WithMessage: nil for nil, else a wrapper carrying a message *)
WithMessage(e, msg) ==
    IF e = Nil THEN Nil
    ELSE <<Node("withMessage", msg, << >>, NoType, << >>)>> \o e

(* errors.Wrapf: a message wrapper inside a trace wrapper *)
pkgWrapf(e, msg, st) ==
    IF e = Nil THEN Nil
    ELSE <<Node("withStack", << >>, st, NoType, << >>)>> \o WithMessage(e, msg)

(* ---- the interfaces a node satisfies ---- *)
causer(n) == n.tag \in {"customError", "withStack", "withMessage"}

typed(n) == n.tag = "customError"

userMessager(n) == n.tag = "customError"

stackTracer(n) == n.tag \in {"withStack", "fundamental"}

(* ---- the trace captured by a call: the capturing line of errors.go,    *)
(* then the frames of its callers ---- *)
callers(line, st) == <<line>> \o st

(* ---- Error() ---- *)
RECURSIVE Error(_)
Error(e) ==
    LET n == Head(e) IN
    IF n.tag \in {"customError", "withStack"} THEN Error(Tail(e))
    ELSE IF n.tag = "withMessage" THEN n.msg \o <<":", " ">> \o Error(Tail(e))
    ELSE n.msg

(* ---- GetType, GetUserMessage ---- *)
GetType(e) ==
    IF e # Nil /\ typed(Head(e)) THEN Head(e).errorType ELSE NoType

GetUserMessage(e) ==
    IF e # Nil /\ userMessager(Head(e)) THEN Head(e).userMessage ELSE << >>

(* ---- faulty variants of the constructors, for the properties below ---- *)
(* Wrapf that takes its own kind even when it is NoType *)
Wrapf_OwnKind(errorType, e, msg, args, st) ==
    IF e = Nil THEN Nil
    ELSE customError(pkgWrapf(e, Sprintf(msg, args), callers(108, st)),
                     errorType, GetUserMessage(e))

(* Wrapf that wraps with errors.WithStack and loses its message *)
Wrapf_NoMessage(errorType, e, msg, args, st) ==
    IF e = Nil THEN Nil
    ELSE customError(WithStack(e, callers(108, st)),
                     IF errorType # NoType THEN errorType ELSE GetType(e),
                     GetUserMessage(e))

(* UserWrapf that takes its own kind even when it is NoType *)
UserWrapf_OwnKind(errorType, e, msg, args, st) ==
    IF e = Nil THEN Nil
    ELSE LET userMsg == Sprintf(msg, args)
             origMsg == GetUserMessage(e)
         IN customError(WithStack(e, callers(129, st)),
                        errorType,
                        IF origMsg # << >>
                        THEN userMsg \o <<":", " ">> \o origMsg
                        ELSE userMsg)

(* UserWrapf that joins the old user message before the new one *)
UserWrapf_OldFirst(errorType, e, msg, args, st) ==
    IF e = Nil THEN Nil
    ELSE LET userMsg == Sprintf(msg, args)
             origMsg == GetUserMessage(e)
         IN customError(WithStack(e, callers(129, st)),
                        IF errorType # NoType THEN errorType ELSE GetType(e),
                        IF origMsg # << >>
                        THEN origMsg \o <<":", " ">> \o userMsg
                        ELSE userMsg)

(* UserWrapf that wraps with errors.Wrapf and so changes Error() too *)
UserWrapf_ChangesError(errorType, e, msg, args, st) ==
    IF e = Nil THEN Nil
    ELSE LET userMsg == Sprintf(msg, args)
             origMsg == GetUserMessage(e)
         IN customError(pkgWrapf(e, userMsg, callers(129, st)),
                        IF errorType # NoType THEN errorType ELSE GetType(e),
                        IF origMsg # << >>
                        THEN userMsg \o <<":", " ">> \o origMsg
                        ELSE userMsg)

(* Set that resolves its kind the way Wrapf does *)
Set_LikeWrapf(errorType, e, st) ==
    IF e = Nil THEN Nil
    ELSE customError(WithStack(e, callers(164, st)),
                     IF errorType # NoType THEN errorType ELSE GetType(e),
                     GetUserMessage(e))

(* Set that does not carry the user message over *)
Set_DropsUserMessage(errorType, e, st) ==
    IF e = Nil THEN Nil
    ELSE customError(WithStack(e, callers(164, st)), errorType, << >>)

(* ---- constructors bound to a kind; st is the stack of the caller ---- *)
ErrorType_Errorf(errorType, msg, args, st) ==
    customError(WithStack(fundamental(Sprintf(msg, args), callers(96, st)),
                          callers(96, st)),
                errorType, << >>)

ErrorType_Wrapf(errorType, e, msg, args, st) ==
    IF e = Nil THEN Nil
    ELSE customError(pkgWrapf(e, Sprintf(msg, args), callers(108, st)),
                     IF errorType # NoType THEN errorType ELSE GetType(e),
                     GetUserMessage(e))

ErrorType_UserWrapf(errorType, e, msg, args, st) ==
    IF e = Nil THEN Nil
    ELSE LET userMsg == Sprintf(msg, args)
             origMsg == GetUserMessage(e)
         IN customError(WithStack(e, callers(129, st)),
                        IF errorType # NoType THEN errorType ELSE GetType(e),
                        IF origMsg # << >>
                        THEN userMsg \o <<":", " ">> \o origMsg
                        ELSE userMsg)

ErrorType_UserErrorf(errorType, msg, args, st) ==
    LET message == Sprintf(msg, args)
    IN customError(WithStack(fundamental(message, callers(151, st)),
                             callers(151, st)),
                   errorType, message)

ErrorType_Set(errorType, e, st) ==
    IF e = Nil THEN Nil
    ELSE customError(WithStack(e, callers(164, st)),
                     errorType, GetUserMessage(e))

(* ---- constructors without a kind ---- *)
Errorf(msg, args, st) == ErrorType_Errorf(NoType, msg, args, callers(172, st))

Wrapf(e, msg, args, st) == ErrorType_Wrapf(NoType, e, msg, args, callers(177, st))

UserErrorf(msg, args, st) == ErrorType_UserErrorf(NoType, msg, args, callers(182, st))

UserWrapf(e, msg, args, st) == ErrorType_UserWrapf(NoType, e, msg, args, callers(187, st))

(* ---- fmt of a stack trace and of an error ---- *)
RECURSIVE StackString(_)
StackString(st) ==
    IF st = << >> THEN << >>
    ELSE <<"\n", ToString(Head(st))>> \o StackString(Tail(st))

(* fmt "%v" of an error: <nil>, else its Error() *)
FormatV(e) == IF e = Nil THEN <<"<nil>">> ELSE Error(e)

(* fmt "%+v" of an error: a customError is no Formatter and prints its    *)
(* Error(); the wrappers and errors of errors print their cause, then     *)
(* their own message or trace *)
RECURSIVE FormatPlusV(_)
FormatPlusV(e) ==
    IF e = Nil THEN <<"<nil>">>
    ELSE LET n == Head(e) IN
         IF n.tag = "customError" THEN Error(e)
         ELSE IF n.tag = "withStack" THEN FormatPlusV(Tail(e)) \o StackString(n.stack)
         ELSE IF n.tag = "withMessage" THEN FormatPlusV(Tail(e)) \o <<"\n">> \o n.msg
         ELSE n.msg \o StackString(n.stack)

(* ---- faulty variants of the trace lookup, for the properties below ---- *)
(* the outermost wrapper with a trace instead of the deepest *)
RECURSIVE outermostStackTracer(_)
outermostStackTracer(e) ==
    IF e # Nil /\ causer(Head(e))
    THEN IF stackTracer(Head(e)) THEN e ELSE outermostStackTracer(Tail(e))
    ELSE Nil

(* ---- baseStackTracer, GetStackTrace ---- *)
RECURSIVE baseStackTracer(_)
baseStackTracer(e) ==
    IF e # Nil /\ causer(Head(e))
    THEN LET candidate == baseStackTracer(Tail(e)) IN
         IF candidate # Nil THEN candidate
         ELSE IF stackTracer(Head(e)) THEN e
         ELSE Nil
    ELSE Nil

(* GetStackTrace without its test for nil *)
GetStackTrace_NoNilTest(e) ==
    LET b == baseStackTracer(e) IN
    IF ~(b # Nil /\ stackTracer(Head(b)))
    THEN FormatPlusV(b)
    ELSE StackString(Tail(Head(b).stack)) \o <<"\n">>

GetStackTrace(e) ==
    IF e = Nil THEN << >>
    ELSE LET b == baseStackTracer(e) IN
         IF ~(b # Nil /\ stackTracer(Head(b)))
         THEN FormatPlusV(b)
         ELSE StackString(Tail(Head(b).stack)) \o <<"\n">>

(* ---- what the caller reads off an error ---- *)
Observe(e) ==
    [error |-> FormatV(e), user |-> GetUserMessage(e),
     type |-> GetType(e), trace |-> GetStackTrace(e)]

(* ---- the caller ---- *)
Call(name, k, m) == [name |-> name, k |-> k, m |-> m]

(* The caller's statement making call number calls + 1. *)
Site == <<1000 + calls + 1>>

(* The arguments the caller gives with format msg: its call number. *)
Args(msg) == IF msg = << >> THEN << >> ELSE <<ToString(calls + 1)>>

Init ==
    /\ err = Nil
    /\ arg = Nil
    /\ op = Call("none", NoType, << >>)
    /\ hist = << >>
    /\ calls = 0
    /\ out = Observe(Nil)

(* The caller replaces its error by the result e of call c on err. *)
Step(c, e) ==
    /\ err' = e
    /\ arg' = err
    /\ op' = c
    /\ hist' = IF e = Nil THEN << >> ELSE <<c>> \o hist
    /\ calls' = calls + 1
    /\ out' = Observe(e)

CallTypedErrorf ==
    \E k \in KindInputs, msg \in FormatInputs :
        /\ calls < MaxCalls
        /\ err = Nil
        /\ Step(Call("ErrorType.Errorf", k, Sprintf(msg, Args(msg))),
                ErrorType_Errorf(k, msg, Args(msg), Site))

CallTypedUserErrorf ==
    \E k \in KindInputs, msg \in FormatInputs :
        /\ calls < MaxCalls
        /\ err = Nil
        /\ Step(Call("ErrorType.UserErrorf", k, Sprintf(msg, Args(msg))),
                ErrorType_UserErrorf(k, msg, Args(msg), Site))

CallTypedWrapf ==
    \E k \in KindInputs, msg \in FormatInputs :
        /\ calls < MaxCalls
        /\ Step(Call("ErrorType.Wrapf", k, Sprintf(msg, Args(msg))),
                ErrorType_Wrapf(k, err, msg, Args(msg), Site))

CallTypedUserWrapf ==
    \E k \in KindInputs, msg \in FormatInputs :
        /\ calls < MaxCalls
        /\ Step(Call("ErrorType.UserWrapf", k, Sprintf(msg, Args(msg))),
                ErrorType_UserWrapf(k, err, msg, Args(msg), Site))

CallSet ==
    \E k \in KindInputs :
        /\ calls < MaxCalls
        /\ Step(Call("ErrorType.Set", k, << >>), ErrorType_Set(k, err, Site))

CallErrorf ==
    \E msg \in FormatInputs :
        /\ calls < MaxCalls
        /\ err = Nil
        /\ Step(Call("Errorf", NoType, Sprintf(msg, Args(msg))),
                Errorf(msg, Args(msg), Site))

CallUserErrorf ==
    \E msg \in FormatInputs :
        /\ calls < MaxCalls
        /\ err = Nil
        /\ Step(Call("UserErrorf", NoType, Sprintf(msg, Args(msg))),
                UserErrorf(msg, Args(msg), Site))

CallWrapf ==
    \E msg \in FormatInputs :
        /\ calls < MaxCalls
        /\ Step(Call("Wrapf", NoType, Sprintf(msg, Args(msg))),
                Wrapf(err, msg, Args(msg), Site))

CallUserWrapf ==
    \E msg \in FormatInputs :
        /\ calls < MaxCalls
        /\ Step(Call("UserWrapf", NoType, Sprintf(msg, Args(msg))),
                UserWrapf(err, msg, Args(msg), Site))

(* The caller starts from an error of another package: io.EOF, or an      *)
(* error of errors.New, which carries a trace (captured in that package,  *)
(* written as line 1) and wraps nothing. *)
ForeignError ==
    \E traced \in BOOLEAN :
        /\ calls < MaxCalls
        /\ err = Nil
        /\ Step(Call("foreign", NoType, <<"EOF">>),
                IF traced THEN fundamental(<<"EOF">>, callers(1, Site))
                ELSE plainError(<<"EOF">>))

(* Code between two calls wraps the error with errors.WithStack (its      *)
(* trace captured in that code, written as line 2) or errors.WithMessage: *)
(* a wrapper that is a causer and neither typed nor userMessager. *)
ForeignWrap ==
    \E traced \in BOOLEAN :
        /\ calls < MaxCalls
        /\ err # Nil
        /\ Step(Call("foreignWrap", NoType, IF traced THEN << >> ELSE <<"w">>),
                IF traced THEN WithStack(err, callers(2, Site))
                ELSE WithMessage(err, <<"w">>))

Next ==
    \/ CallTypedErrorf
    \/ CallTypedUserErrorf
    \/ CallTypedWrapf
    \/ CallTypedUserWrapf
    \/ CallSet
    \/ CallErrorf
    \/ CallUserErrorf
    \/ CallWrapf
    \/ CallUserWrapf
    \/ ForeignError
    \/ ForeignWrap

Spec == Init /\ [][Next]_vars

(***************************************************************************)
(* Properties                                                              *)
(***************************************************************************)
Sep == <<":", " ">>

WrapfCalls == {"ErrorType.Wrapf", "Wrapf"}

UserWrapfCalls == {"ErrorType.UserWrapf", "UserWrapf"}

UserErrorfCalls == {"ErrorType.UserErrorf", "UserErrorf"}

SetCalls == {"ErrorType.Set"}

LayerCalls == WrapfCalls \cup UserWrapfCalls \cup SetCalls

ForeignCalls == {"foreign", "foreignWrap"}

(* The error is one this package made. *)
Annotated(e) == e # Nil /\ Head(e).tag = "customError"

(* C1: wrapping a non-nil error with Wrapf or UserWrapf under kind k gives *)
(* an error of kind k when k is not NoType and of the kind of the wrapped  *)
(* error when k is NoType; the calls without a kind are the NoType case.   *)
C1_WrapKind ==
    (op.name \in WrapfCalls \cup UserWrapfCalls /\ arg # Nil) =>
        /\ op.k # NoType => out.type = op.k
        /\ op.k = NoType => out.type = GetType(arg)
        /\ op.name \in {"Wrapf", "UserWrapf"} => out.type = GetType(arg)

C1_Witness ==
    /\ op.name = "ErrorType.UserWrapf"
    /\ op.k = BadRequest
    /\ GetType(arg) = NotFound
    /\ out.type = BadRequest

(* C2: Set under kind k on a non-nil error gives an error of kind k,       *)
(* whatever the kind of the error was, NoType included.                    *)
C2_SetForces ==
    (op.name \in SetCalls /\ arg # Nil) => out.type = op.k

C2_Witness ==
    /\ op.name = "ErrorType.Set"
    /\ op.k = NoType
    /\ Len(hist) >= 2
    /\ hist[2].name = "ErrorType.Set"
    /\ hist[2].k = BadRequest
    /\ GetType(arg) = BadRequest
    /\ out.type = NoType

(* The kind of the outermost layer that supplied one: a Set layer, or any  *)
(* other layer of this package with a kind other than NoType; NoType when  *)
(* the layers run out at a foreign error.                                  *)
RECURSIVE SuppliedKind(_)
SuppliedKind(h) ==
    IF h = << >> \/ Head(h).name \in ForeignCalls THEN NoType
    ELSE IF Head(h).name \in SetCalls \/ Head(h).k # NoType THEN Head(h).k
    ELSE SuppliedKind(Tail(h))

(* C3: after any sequence of calls from a new root or a foreign error, the *)
(* kind of the result is the kind of the outermost layer that supplied     *)
(* one, and NoType when none did.                                          *)
C3_OutermostKind == out.type = SuppliedKind(hist)

C3_Witness ==
    /\ Len(hist) = 3
    /\ hist[1].name = "UserWrapf"
    /\ hist[2].name = "Wrapf"
    /\ hist[3].name = "ErrorType.Errorf"
    /\ hist[3].k = NotFound
    /\ out.type = NotFound

(* The trace of the deepest node of the chain that carries one. *)
RECURSIVE DeepestTrace(_)
DeepestTrace(e) ==
    IF e = Nil THEN << >>
    ELSE IF DeepestTrace(Tail(e)) # << >> THEN DeepestTrace(Tail(e))
    ELSE Head(e).stack

(* The chain ends in a foreign error that wraps nothing and carries a      *)
(* trace of its own (an error of errors.New).                              *)
TracedForeignBase(e) == e # Nil /\ e[Len(e)].tag = "fundamental" /\ hist[Len(hist)].name = "foreign"

RECURSIVE Traceless(_)
Traceless(e) == e = Nil \/ (Head(e).stack = << >> /\ Traceless(Tail(e)))

(* C5: for a non-nil error with no trace anywhere in its chain,            *)
(* GetStackTrace gives the full representation of that error, which is     *)
(* not empty.                                                              *)
C5_ForeignFallback ==
    (err # Nil /\ Traceless(err)) =>
        /\ out.trace = FormatPlusV(err)
        /\ out.trace # << >>

(* The user message of the outermost layer of the chain that has one. *)
RECURSIVE OutermostUserMessage(_)
OutermostUserMessage(e) ==
    IF e = Nil THEN << >>
    ELSE IF Head(e).userMessage # << >> THEN Head(e).userMessage
    ELSE OutermostUserMessage(Tail(e))

(* C6 as stated: for any chain, foreign wrappers on top of or between the  *)
(* layers included, GetUserMessage gives the user message of the outermost *)
(* layer that has one.                                                     *)
C6_AnyChain == out.user = OutermostUserMessage(err)

(* No foreign wrapper sits on top of or between the layers. *)
NoForeignWrap(h) == \A i \in 1..Len(h) : h[i].name # "foreignWrap"

(* C6: for a chain of layers of this package over a new root or a foreign  *)
(* error, with no foreign wrapper on top of or between the layers,         *)
(* GetUserMessage gives the user message of the outermost layer that has   *)
(* one, and the empty string when no layer has one.                        *)
C6_LayersOnly == NoForeignWrap(hist) => out.user = OutermostUserMessage(err)

C6_Witness ==
    /\ Len(hist) = 3
    /\ NoForeignWrap(hist)
    /\ hist[3].name = "ErrorType.UserErrorf"
    /\ hist[2].name = "ErrorType.Wrapf"
    /\ hist[1].name = "ErrorType.Set"
    /\ out.user = <<"m", "1">>

(* UserWrapf calls nested over a foreign error or a UserErrorf root. *)
RECURSIVE NestedUserWrapf(_)
NestedUserWrapf(h) ==
    /\ Len(h) >= 2
    /\ h[1].name \in UserWrapfCalls
    /\ \/ h[2].name \in ForeignCalls \cup UserErrorfCalls
       \/ NestedUserWrapf(Tail(h))

(* Their messages joined outermost first, the root's last. *)
RECURSIVE JoinedUser(_)
JoinedUser(h) ==
    IF h[2].name \in ForeignCalls THEN h[1].m
    ELSE IF h[2].name \in UserErrorfCalls THEN h[1].m \o Sep \o h[2].m
    ELSE h[1].m \o Sep \o JoinedUser(Tail(h))

(* None of the nested messages is empty. *)
RECURSIVE NonEmptyMessages(_)
NonEmptyMessages(h) ==
    \/ h = << >>
    \/ Head(h).name \in ForeignCalls
    \/ (Head(h).m # << >> /\ NonEmptyMessages(Tail(h)))

UserWrapfStep ==
    (op.name \in UserWrapfCalls /\ arg # Nil) =>
        out.user = IF GetUserMessage(arg) = << >> THEN op.m
                   ELSE op.m \o Sep \o GetUserMessage(arg)

(* C7 as stated: UserWrapf with message m over a non-nil error gives user  *)
(* message m when the error has none and m: old otherwise; so nested       *)
(* UserWrapf calls with any messages give mn: ...: m1, or mn: ...: m1: m0  *)
(* over a UserErrorf root.                                                 *)
C7_AnyMessages ==
    /\ UserWrapfStep
    /\ NestedUserWrapf(hist) => out.user = JoinedUser(hist)

(* C7: the same, the nested form for messages none of which is empty.      *)
C7_NonEmptyMessages ==
    /\ UserWrapfStep
    /\ (NestedUserWrapf(hist) /\ NonEmptyMessages(hist)) => out.user = JoinedUser(hist)

C7_Witness ==
    /\ Len(hist) = 3
    /\ hist[1].name = "UserWrapf"
    /\ hist[2].name = "ErrorType.UserWrapf"
    /\ hist[3].name = "UserErrorf"
    /\ out.user = <<"m", "3", ":", " ", "m", "2", ":", " ", "m", "1">>

(* The messages of the Wrapf layers on top of the chain, outermost first,  *)
(* then the message of the error beneath them.                             *)
RECURSIVE JoinedError(_, _)
JoinedError(h, e) ==
    IF h # << >> /\ Head(h).name \in WrapfCalls
    THEN Head(h).m \o Sep \o JoinedError(Tail(h), SubSeq(e, 4, Len(e)))
    ELSE Error(e)

(* C8: Wrapf with message m over a non-nil error gives the message         *)
(* m: old, whatever the kind; nested, mn: ...: m1: B over a base B.        *)
C8_WrapfMessage ==
    /\ (op.name \in WrapfCalls /\ arg # Nil) => out.error = op.m \o Sep \o Error(arg)
    /\ err # Nil => out.error = JoinedError(hist, err)

C8_Witness ==
    /\ Len(hist) = 3
    /\ hist[1].name = "ErrorType.Wrapf"
    /\ hist[1].k = BadRequest
    /\ hist[2].name = "Wrapf"
    /\ hist[3].name = "foreign"
    /\ out.error = <<"m", "3", ":", " ", "m", "2", ":", " ", "EOF">>

(* C9: UserWrapf and Set leave Error() as it was; Wrapf and Set leave the  *)
(* user message as it was.                                                 *)
C9_IndependentTrails ==
    /\ (op.name \in UserWrapfCalls \cup SetCalls /\ arg # Nil) => out.error = Error(arg)
    /\ (op.name \in WrapfCalls \cup SetCalls /\ arg # Nil) => out.user = GetUserMessage(arg)

C9_Witness ==
    /\ op.name = "ErrorType.UserWrapf"
    /\ op.m = <<"m", "3">>
    /\ hist[2].name = "ErrorType.Wrapf"
    /\ hist[2].m = <<"m", "2">>
    /\ out.error = <<"m", "2", ":", " ", "m", "1">>
    /\ out.user = <<"m", "3", ":", " ", "m", "1">>

(* C10: Wrapf, UserWrapf and Set of nil are nil, and nil has kind NoType,  *)
(* no user message and no trace.                                           *)
C10_NilAbsorbs ==
    /\ (op.name \in LayerCalls /\ arg = Nil) => err = Nil
    /\ err = Nil => (out.type = NoType /\ out.user = << >> /\ out.trace = << >>)

C10_Witness ==
    /\ op.name = "ErrorType.Set"
    /\ op.k = BadRequest
    /\ arg = Nil
    /\ err = Nil
    /\ calls = 2
====
